---- MODULE Spec2Model ----
(***************************************************************************)
(* server-starter-listener: listeners() reads SERVER_STARTER_PORT, splits  *)
(* it on ";" into specs, each spec on "=" into an address token and a      *)
(* descriptor number, and wraps the descriptor as a TcpListener or a       *)
(* UnixListener (src/src/lib.rs).                                          *)
(*                                                                         *)
(* A string is a sequence of one-character strings.  The descriptor table  *)
(* of the process is the set fdOpen of open descriptor numbers.            *)
(***************************************************************************)
EXTENDS Integers, Sequences, FiniteSets

\* ---------------------------------------------------------------- bounds
\* longest variable value enumerated character by character
MaxLen == 5
\* most sample specs joined by ";" into one variable value
MaxSegs == 2
\* calls of listeners() in one process
MaxCalls == 2

\* ------------------------------------------------------------- constants
\* i32::MAX, the width of `let fd: i32`
I32Max == 2147483647
I32Min == -I32Max - 1

Digits == {"0", "1", "2", "3", "4", "5", "6", "7", "8", "9"}

DigitVal(c) ==
    CASE c = "0" -> 0 [] c = "1" -> 1 [] c = "2" -> 2 [] c = "3" -> 3
      [] c = "4" -> 4 [] c = "5" -> 5 [] c = "6" -> 6 [] c = "7" -> 7
      [] c = "8" -> 8 [] c = "9" -> 9

\* ---------------------------------------------------------------- inputs
\* The characters the enumerated values are made of: two digits, a letter,
\* the three separators of the format and the minus sign.
Alphabet == {"1", "3", "a", ":", "=", ";", "-"}

Strings(n) == UNION {[1..k -> Alphabet] : k \in 0..n}

\* Whole specs that are longer than MaxLen allows when combined.
SampleSpecs ==
    { <<"1", "=", "3">>,                    \* bare port
      <<"a", ":", "1", "=", "1">>,          \* host:port
      <<"a", "=", "1">>,                    \* path
      <<"a", "=", "3">>,                    \* path, other descriptor
      <<"1", "=", "-", "1">>,               \* descriptor -1
      <<"1", "=", "a">>,                    \* non-numeric descriptor
      <<"a">> }                             \* no "="

RECURSIVE Join(_, _)
Join(ss, sep) ==
    IF Len(ss) = 0 THEN <<>>
    ELSE IF Len(ss) = 1 THEN ss[1]
    ELSE ss[1] \o <<sep>> \o Join(Tail(ss), sep)

EnvValues ==
    Strings(MaxLen)
      \cup {Join(ss, ";") : ss \in UNION {[1..n -> SampleSpecs] : n \in 2..MaxSegs}}

\* The descriptors the process starts with: stdio and one inherited socket.
InheritedFds == {0, 1, 2, 3}

\* ----------------------------------------------------------------- state
VARIABLES
    env,         \* SERVER_STARTER_PORT: [set, val]
    pc,          \* "idle", "loop", "returned", "panicked"
    specs,       \* the specs being iterated over
    i,           \* index in specs of the spec the loop examines next
    results,     \* the local Vec of listeners built so far
    ret,         \* what the last call returned
    fdOpen,      \* the open descriptors of the process
    openAtCall,  \* fdOpen when the running call began
    adopted,     \* descriptor numbers passed to from_raw_fd by the running call
    calls        \* calls of listeners() finished before the running one

vars == <<env, pc, specs, i, results, ret, fdOpen, openAtCall, adopted, calls>>

Unset == [set |-> FALSE, val |-> <<>>]
SetTo(s) == [set |-> TRUE, val |-> s]

NoResult == [tag |-> "none", text |-> <<>>, listeners |-> <<>>]
Ok(ls) == [tag |-> "Ok", text |-> <<>>, listeners |-> ls]
ServerStarterPortEnvNotFound ==
    [tag |-> "ServerStarterPortEnvNotFound", text |-> <<>>, listeners |-> <<>>]
InvalidServerStarterPortSpec(s) ==
    [tag |-> "InvalidServerStarterPortSpec", text |-> s, listeners |-> <<>>]
UnixListenerBindError ==
    [tag |-> "UnixListenerBindError", text |-> <<>>, listeners |-> <<>>]

\* ------------------------------------------------------- pure functions
\* std::env::var: Err when the variable is unset
EnvVar_UnwrapOrDefault(e) == [ok |-> TRUE, val |-> e.val]
EnvVar(e) == [ok |-> e.set, val |-> e.val]

\* str::split(sep).collect(): the pieces between the separators, the empty
\* ones included; a string without separator is one piece.
RECURSIVE SplitFrom(_, _, _, _, _)
SplitFrom(s, sep, k, cur, acc) ==
    IF k > Len(s) THEN Append(acc, cur)
    ELSE IF s[k] = sep THEN SplitFrom(s, sep, k + 1, <<>>, Append(acc, cur))
    ELSE SplitFrom(s, sep, k + 1, Append(cur, s[k]), acc)

Split_SkipEmpty(s, sep) ==
    SelectSeq(SplitFrom(s, sep, 1, <<>>, <<>>), LAMBDA p : Len(p) > 0)
Split(s, sep) == SplitFrom(s, sep, 1, <<>>, <<>>)

\* str::parse::<i32>(): an optional sign, then one or more decimal digits,
\* accumulated with checked arithmetic.
RECURSIVE ParseDigits(_, _, _, _)
ParseDigits(s, k, acc, positive) ==
    IF k > Len(s) THEN [ok |-> TRUE, val |-> acc]
    ELSE IF s[k] \notin Digits THEN [ok |-> FALSE, val |-> 0]
    ELSE LET d == DigitVal(s[k])
             \* checked_mul(10) then checked_add(d) or checked_sub(d)
             fits == IF positive THEN acc <= (I32Max - d) \div 10
                     ELSE acc >= (I32Min + d + 9) \div 10
         IN IF ~fits THEN [ok |-> FALSE, val |-> 0]
            ELSE ParseDigits(s, k + 1,
                             IF positive THEN acc * 10 + d ELSE acc * 10 - d,
                             positive)

ParseI32_UnwrapOrZero(s) ==
    IF Len(s) = 0 \/ s \in {<<"+">>, <<"-">>} THEN [ok |-> TRUE, val |-> 0]
    ELSE LET r == IF s[1] = "+" THEN ParseDigits(s, 2, 0, TRUE)
                  ELSE IF s[1] = "-" THEN ParseDigits(s, 2, 0, FALSE)
                  ELSE ParseDigits(s, 1, 0, TRUE)
         IN [ok |-> TRUE, val |-> r.val]
ParseI32(s) ==
    IF Len(s) = 0 THEN [ok |-> FALSE, val |-> 0]
    ELSE IF s \in {<<"+">>, <<"-">>} THEN [ok |-> FALSE, val |-> 0]
    ELSE IF s[1] = "+" THEN ParseDigits(s, 2, 0, TRUE)
    ELSE IF s[1] = "-" THEN ParseDigits(s, 2, 0, FALSE)
    ELSE ParseDigits(s, 1, 0, TRUE)

\* length of the longest prefix of s, from position k on, whose characters
\* satisfy the class
RECURSIVE RunOf(_, _, _)
RunOf(s, k, class) ==
    IF k > Len(s) \/ s[k] \notin class THEN 0 ELSE 1 + RunOf(s, k + 1, class)

NotColon == (Alphabet \cup Digits) \ {":"}

\* HOST_PORT_REGEX  ^[^:]+:\d+$
HOST_PORT_REGEX(s) ==
    LET h == RunOf(s, 1, NotColon)
    IN  /\ h >= 1
        /\ h + 1 <= Len(s)
        /\ s[h + 1] = ":"
        /\ LET d == RunOf(s, h + 2, Digits)
           IN  d >= 1 /\ h + 1 + d = Len(s)

\* PORT_REGEX  ^\d+$
PORT_REGEX_SingleDigit(s) == Len(s) = 1 /\ s[1] \in Digits
PORT_REGEX(s) == Len(s) >= 1 /\ RunOf(s, 1, Digits) = Len(s)

\* ServerStarterListener::tcp / ::uds
tcp(fd) == [kind |-> "Tcp", fd |-> fd]

uds_BindError(fd) == [ok |-> FALSE, val |-> [kind |-> "Uds", fd |-> fd]]
uds(fd) == [ok |-> TRUE, val |-> [kind |-> "Uds", fd |-> fd]]

\* results.push(listener)
Push_Front(v, x) == <<x>> \o v
Push_Twice(v, x) == Append(Append(v, x), x)
Push(v, x) == Append(v, x)

\* Dropping listeners closes the descriptor each of them owns.
Drop_Forget(open, ls) == open
Drop(open, ls) == open \ {ls[k].fd : k \in DOMAIN ls}

\* ---------------------------------------------------------------- system
Init ==
    /\ env \in {Unset} \cup {SetTo(s) : s \in EnvValues}
    /\ pc = "idle"
    /\ specs = <<>>
    /\ i = 1
    /\ results = <<>>
    /\ ret = NoResult
    /\ fdOpen = InheritedFds
    /\ openAtCall = InheritedFds
    /\ adopted = <<>>
    /\ calls = 0

\* listeners(), up to the loop: read the variable, split it on ";"
Call ==
    /\ pc = "idle"
    /\ openAtCall' = fdOpen
    /\ adopted' = <<>>
    /\ results' = <<>>
    /\ i' = 1
    /\ LET v == EnvVar(env)
       IN IF ~v.ok
          THEN /\ ret' = ServerStarterPortEnvNotFound
               /\ pc' = "returned"
               /\ specs' = <<>>
          ELSE /\ specs' = Split(v.val, ";")
               /\ pc' = "loop"
               /\ ret' = NoResult
    /\ UNCHANGED <<env, fdOpen, calls>>

\* `return Err(e)` inside the loop: the local results are dropped
ReturnErr(e) ==
    /\ ret' = e
    /\ pc' = "returned"
    /\ fdOpen' = Drop(fdOpen, results)
    /\ results' = <<>>
    /\ UNCHANGED <<env, specs, i, openAtCall, adopted, calls>>

Adopt(listener) ==
    /\ results' = Push(results, listener)
    /\ adopted' = Append(adopted, listener.fd)
    /\ i' = i + 1
    /\ UNCHANGED <<env, pc, specs, ret, fdOpen, openAtCall, calls>>

\* one iteration of `for spec in specs`
Iterate ==
    /\ pc = "loop"
    /\ i <= Len(specs)
    /\ LET spec == specs[i]
           pair == Split(spec, "=")
       IN IF Len(pair) # 2
          THEN ReturnErr(InvalidServerStarterPortSpec(spec))
          ELSE LET left == pair[1]
                   fd == ParseI32(pair[2])
               IN IF ~fd.ok
                  THEN ReturnErr(InvalidServerStarterPortSpec(spec))
                  ELSE IF HOST_PORT_REGEX(left) THEN Adopt(tcp(fd.val))
                  ELSE IF PORT_REGEX(left) THEN Adopt(tcp(fd.val))
                  ELSE LET uds_listener == uds(fd.val)
                       IN IF ~uds_listener.ok
                          THEN ReturnErr(UnixListenerBindError)
                          ELSE Adopt(uds_listener.val)

\* from_raw_fd(-1) breaks the precondition of the unsafe call: the standard
\* library either wraps the number as it is (Iterate) or asserts that the
\* descriptor is not -1 and panics; unwinding drops the local results.
FromRawFdPanic ==
    /\ pc = "loop"
    /\ i <= Len(specs)
    /\ LET pair == Split(specs[i], "=")
       IN  /\ Len(pair) = 2
           /\ ParseI32(pair[2]) = [ok |-> TRUE, val |-> -1]
    /\ pc' = "panicked"
    /\ fdOpen' = Drop(fdOpen, results)
    /\ results' = <<>>
    /\ UNCHANGED <<env, specs, i, ret, openAtCall, adopted, calls>>

\* Ok(results) after the loop
Finish ==
    /\ pc = "loop"
    /\ i > Len(specs)
    /\ ret' = Ok(results)
    /\ results' = <<>>
    /\ pc' = "returned"
    /\ UNCHANGED <<env, specs, i, fdOpen, openAtCall, adopted, calls>>

\* The caller lets the returned value go out of scope and calls again, as
\* the closures of the tests do.
Again ==
    /\ pc = "returned"
    /\ calls + 1 < MaxCalls
    /\ fdOpen' = Drop(fdOpen, ret.listeners)
    /\ ret' = NoResult
    /\ pc' = "idle"
    /\ calls' = calls + 1
    /\ specs' = <<>>
    /\ i' = 1
    /\ adopted' = <<>>
    /\ openAtCall' = fdOpen'
    /\ UNCHANGED <<env, results>>

\* std::env::remove_var("SERVER_STARTER_PORT") between calls
RemoveVar ==
    /\ pc = "idle"
    /\ env.set
    /\ env' = Unset
    /\ UNCHANGED <<pc, specs, i, results, ret, fdOpen, openAtCall, adopted, calls>>

Next == Call \/ Iterate \/ FromRawFdPanic \/ Finish \/ Again \/ RemoveVar

Spec == Init /\ [][Next]_vars

\* ------------------------------------------------------------------------
\* The format of the variable, stated by positions instead of by scanning.
\* ------------------------------------------------------------------------
CountOf(s, c) == Cardinality({k \in DOMAIN s : s[k] = c})

\* position of the n-th occurrence of c in s
NthPos(s, c, n) ==
    CHOOSE p \in DOMAIN s : s[p] = c /\ Cardinality({q \in 1..p : s[q] = c}) = n

NumSegments(v) == CountOf(v, ";") + 1

SegmentAt(v, j) ==
    LET a == IF j = 1 THEN 0 ELSE NthPos(v, ";", j - 1)
        b == IF j = NumSegments(v) THEN Len(v) + 1 ELSE NthPos(v, ";", j)
    IN  SubSeq(v, a + 1, b - 1)

\* for a segment with exactly one "="
AddressOf(seg) == SubSeq(seg, 1, NthPos(seg, "=", 1) - 1)
NumberOf(seg) == SubSeq(seg, NthPos(seg, "=", 1) + 1, Len(seg))

IsDecimal(s) == Len(s) >= 1 /\ \A k \in DOMAIN s : s[k] \in Digits

RECURSIVE DecimalValue(_)
DecimalValue(s) ==
    IF Len(s) = 0 THEN 0
    ELSE 10 * DecimalValue(SubSeq(s, 1, Len(s) - 1)) + DigitVal(s[Len(s)])

\* a valid descriptor number: a non-negative decimal that fits an i32
IsDescriptor(s) == IsDecimal(s) /\ DecimalValue(s) <= I32Max

\* what the parse takes: a descriptor number, or a sign before decimal digits
IsSignedNumber(s) ==
    \/ IsDescriptor(s)
    \/ /\ Len(s) >= 2
       /\ s[1] = "+"
       /\ IsDescriptor(Tail(s))
    \/ /\ Len(s) >= 2
       /\ s[1] = "-"
       /\ IsDecimal(Tail(s))
       /\ DecimalValue(Tail(s)) - 1 <= I32Max

IsHostPortToken(t) ==
    \E p \in DOMAIN t :
        /\ t[p] = ":"
        /\ p >= 2
        /\ \A q \in 1..(p - 1) : t[q] # ":"
        /\ IsDecimal(SubSeq(t, p + 1, Len(t)))

IsTcpToken(t) == IsHostPortToken(t) \/ IsDecimal(t)

KindOf(t) == IF IsTcpToken(t) THEN "Tcp" ELSE "Uds"

\* a segment as the format of the variable defines it
WellFormed(seg) ==
    /\ CountOf(seg, "=") = 1
    /\ Len(AddressOf(seg)) >= 1
    /\ IsDescriptor(NumberOf(seg))

\* exactly two non-empty parts around one "="
TwoNonEmptyParts(seg) ==
    /\ CountOf(seg, "=") = 1
    /\ Len(AddressOf(seg)) >= 1
    /\ Len(NumberOf(seg)) >= 1

\* a segment at which the loop returns an error
Rejected(seg) == CountOf(seg, "=") # 1 \/ ~IsSignedNumber(NumberOf(seg))

AllSegments(v) == 1..NumSegments(v)

FirstRejected(v) ==
    CHOOSE k \in AllSegments(v) :
        /\ Rejected(SegmentAt(v, k))
        /\ \A j \in 1..(k - 1) : ~Rejected(SegmentAt(v, j))

SomeRejected(v) == \E k \in AllSegments(v) : Rejected(SegmentAt(v, k))

Returned == pc = "returned" /\ env.set

IsErr == ret.tag \notin {"none", "Ok"}

FdsOf(ls) == {ls[k].fd : k \in DOMAIN ls}

NoSharedFd(ls) == \A j, k \in DOMAIN ls : j # k => ls[j].fd # ls[k].fd

\* ------------------------------------------------------------------------
\* Claims
\* ------------------------------------------------------------------------

\* C1: a value of one segment T=N, N a valid descriptor number and T a
\* host:port or bare-port token, makes listeners() return Ok with exactly one
\* listener, of the Tcp variant, whose descriptor is N.
C1_TcpSingle ==
    (/\ Returned
     /\ NumSegments(env.val) = 1
     /\ CountOf(env.val, "=") = 1
     /\ IsDescriptor(NumberOf(env.val))
     /\ IsTcpToken(AddressOf(env.val)))
    => /\ ret.tag = "Ok"
       /\ Len(ret.listeners) = 1
       /\ ret.listeners[1].kind = "Tcp"
       /\ ret.listeners[1].fd = DecimalValue(NumberOf(env.val))

C1_Witness ==
    /\ Returned
    /\ ret.tag = "Ok"
    /\ env.val = <<"a", ":", "1", "=", "3">>
    /\ ret.listeners = <<[kind |-> "Tcp", fd |-> 3]>>

\* C2: a value of one segment T=N, N a valid descriptor number and T neither
\* a host:port nor a bare-port token, makes listeners() return Ok with
\* exactly one listener, of the Uds variant, whose descriptor is N.
C2_UdsSingle ==
    (/\ Returned
     /\ NumSegments(env.val) = 1
     /\ CountOf(env.val, "=") = 1
     /\ IsDescriptor(NumberOf(env.val))
     /\ ~IsTcpToken(AddressOf(env.val)))
    => /\ ret.tag = "Ok"
       /\ Len(ret.listeners) = 1
       /\ ret.listeners[1].kind = "Uds"
       /\ ret.listeners[1].fd = DecimalValue(NumberOf(env.val))

C2_Witness ==
    /\ Returned
    /\ ret.tag = "Ok"
    /\ env.val = <<"1", ":", "=", "3">>
    /\ ret.listeners = <<[kind |-> "Uds", fd |-> 3]>>

\* C3: a value of N well-formed segments makes listeners() return exactly N
\* listeners, the i-th with the variant and the descriptor of the i-th
\* segment from the left.
C3_OrderKept ==
    (/\ Returned
     /\ \A k \in AllSegments(env.val) : WellFormed(SegmentAt(env.val, k)))
    => /\ ret.tag = "Ok"
       /\ Len(ret.listeners) = NumSegments(env.val)
       /\ \A k \in AllSegments(env.val) :
            /\ ret.listeners[k].kind = KindOf(AddressOf(SegmentAt(env.val, k)))
            /\ ret.listeners[k].fd = DecimalValue(NumberOf(SegmentAt(env.val, k)))

C3_Witness ==
    /\ Returned
    /\ ret.tag = "Ok"
    /\ \A k \in AllSegments(env.val) : WellFormed(SegmentAt(env.val, k))
    /\ Len(ret.listeners) >= 2
    /\ ret.listeners[1].kind # ret.listeners[2].kind
    /\ ret.listeners[1].fd # ret.listeners[2].fd

\* C4: with the variable unset, a call returns ServerStarterPortEnvNotFound
\* without adopting a descriptor: the descriptor table is as the call found it.
C4_UnsetIsNotFound ==
    (pc = "returned" /\ ~env.set)
    => /\ ret = ServerStarterPortEnvNotFound
       /\ adopted = <<>>
       /\ fdOpen = openAtCall

C4_Witness ==
    /\ pc = "returned"
    /\ ~env.set
    /\ calls >= 1
    /\ ret.tag = "ServerStarterPortEnvNotFound"
    /\ fdOpen # InheritedFds

\* C5 (as claimed): a segment that does not split on "=" into exactly two
\* non-empty parts is never adopted: every segment the running call has
\* adopted a descriptor for has two non-empty parts.
C5_AdoptedHaveTwoNonEmptyParts ==
    (pc \in {"loop", "returned"} /\ env.set)
    => \A k \in 1..Len(adopted) : TwoNonEmptyParts(SegmentAt(env.val, k))

\* C6 (as claimed): a descriptor is adopted only when the second part of its
\* segment is a non-negative integer.
C6_AdoptedAreNonNegative ==
    (pc \in {"loop", "returned"} /\ env.set)
    => \A k \in 1..Len(adopted) :
          /\ CountOf(SegmentAt(env.val, k), "=") = 1
          /\ IsDecimal(NumberOf(SegmentAt(env.val, k)))
          /\ adopted[k] >= 0

\* C7: when listeners() returns and segment k is the first at which it fails,
\* it returns InvalidServerStarterPortSpec with the text of segment k and no
\* listener, it has adopted the descriptors of the k-1 segments before k only,
\* and the loop stopped at k.
C7_FailFast ==
    (Returned /\ SomeRejected(env.val))
    => LET k == FirstRejected(env.val)
       IN  /\ ret = InvalidServerStarterPortSpec(SegmentAt(env.val, k))
           /\ results = <<>>
           /\ i = k
           /\ Len(adopted) = k - 1

C7_Witness ==
    /\ Returned
    /\ NumSegments(env.val) >= 2
    /\ SomeRejected(env.val)
    /\ FirstRejected(env.val) = 2
    /\ FirstRejected(env.val) < NumSegments(env.val)
    /\ Len(adopted) = 1
    /\ ret.tag = "InvalidServerStarterPortSpec"

\* C8 (as claimed): when the call returns an error after adopting descriptors,
\* the adopted descriptors that were open are still open.
C8_AdoptedStayOpen ==
    (Returned /\ IsErr /\ Len(adopted) >= 1)
    => \A k \in DOMAIN adopted : adopted[k] \in openAtCall => adopted[k] \in fdOpen

\* C8 (amended): when the call returns an error after adopting descriptors,
\* the listeners built before the failing segment were dropped with the local
\* result vector: none of the adopted descriptors is open, and the caller
\* gets no listener.
C8_AdoptedAreClosed ==
    (Returned /\ IsErr /\ Len(adopted) >= 1)
    => /\ \A k \in DOMAIN adopted : adopted[k] \notin fdOpen
       /\ fdOpen = openAtCall \ {adopted[k] : k \in DOMAIN adopted}
       /\ ret.listeners = <<>>
       /\ results = <<>>

C8_Witness ==
    /\ Returned
    /\ IsErr
    /\ Len(adopted) >= 1
    /\ adopted[1] \in openAtCall
    /\ adopted[1] \notin fdOpen

\* C9 (as claimed): no descriptor number is owned by two listeners, neither
\* during the call nor in the returned sequence.
C9_NoSharedFd == NoSharedFd(results) /\ NoSharedFd(ret.listeners)

\* C9 (amended): each processed segment adopts its descriptor exactly once:
\* the listeners built so far are one per processed segment, in order, and
\* when the processed segments name pairwise distinct descriptor numbers no
\* number is owned by two listeners.
C9_AdoptedOnce ==
    /\ (pc = "loop" /\ env.set)
         => /\ Len(results) = i - 1
            /\ Len(adopted) = i - 1
            /\ \A k \in 1..(i - 1) :
                 results[k].fd = adopted[k]
            /\ (\A j, k \in 1..(i - 1) : j # k => adopted[j] # adopted[k])
                 => NoSharedFd(results)
    /\ (Returned /\ ret.tag = "Ok")
         => /\ Len(ret.listeners) = NumSegments(env.val)
            /\ Len(adopted) = NumSegments(env.val)
            /\ \A k \in AllSegments(env.val) : ret.listeners[k].fd = adopted[k]
            /\ (\A j, k \in AllSegments(env.val) : j # k => adopted[j] # adopted[k])
                 => NoSharedFd(ret.listeners)

C9_Witness ==
    /\ Returned
    /\ ret.tag = "Ok"
    /\ Len(ret.listeners) = 2
    /\ ret.listeners[1].fd # ret.listeners[2].fd

====
